---- MODULE Spec2Model ----
(***************************************************************************)
(* csp-solver-ts: backtracking search with MRV/degree variable selection   *)
(* and AC-3 propagation (src/src/solver), over the immutable Domain, CSP   *)
(* and constraint classes (src/src/data, src/src/constraints).             *)
(*                                                                         *)
(* A Domain is modelled as the sequence of its distinct values in the      *)
(* insertion order of the underlying JavaScript Set; an Assignment as a    *)
(* function from the bound variables to their values; a constraint as a    *)
(* record naming its class and the fields the class stores.  JavaScript    *)
(* truthiness of strings is kept: the empty string is falsy.               *)
(***************************************************************************)
EXTENDS Integers, Sequences, FiniteSets, TLC

VARIABLES
    csp,        \* the CSP handed to solveCSP
    pc,         \* position of the solver: start, search, loop, ac3, return, done
    cur,        \* the SolverState argument of the search call being entered
    stack,      \* the active search calls, outermost first
    newState,   \* search's newState, the result of state.assign
    queue,      \* ac3Inference's work queue of arcs
    domains,    \* ac3Inference's working copy of the domains
    ret,        \* the value returned by the search call that last returned
    result,     \* the SolverResult returned by solveCSP
    last,       \* what the last step did (observation only)
    assigns,    \* the number of state.assign calls made so far
    dom,        \* Domain exercise: the Domain object under test, or a signal
    orig,       \* Domain exercise: the Domain the last operation was called on
    op,         \* Domain exercise: the last operation and its argument
    call,       \* a single call of a constructor or method: arguments, result
    builder,    \* a CSPBuilder: its fields, and the last call made on it
    first       \* the result of the first of two runs of solveCSP on csp

vars == <<csp, pc, cur, stack, newState, queue, domains, ret, result, last,
          assigns, dom, orig, op, call, builder, first>>

solverVars == <<csp, pc, cur, stack, newState, queue, domains, ret, result, last,
                assigns>>

domainVars == <<dom, orig, op>>

exerciseVars == <<dom, orig, op, call, builder, first>>

----------------------------------------------------------------------------
(* Bounds of the model *)

\* generated CSPs have at most this many variables
MaxVars == 3
\* generated domains hold at most this many values
MaxDomainSize == 2
\* the colours of the complete-graph map problem range over 1..MaxColors
MaxColors == 2
\* cap on the number of operations applied to one Domain
MaxOps == 3
\* createNQueensProblem is called with n in 1..MaxQueens
MaxQueens == 3
\* single calls take their variables from the first MaxArgs names, in lists
\* of at most MaxArgs
MaxArgs == 2
\* cap on the number of calls made on one CSPBuilder
MaxBuilderCalls == 3

----------------------------------------------------------------------------
(* Signals *)

\* JavaScript null: Domain.filter/remove on an emptied result, search and
\* ac3Inference on failure, selectUnassignedVariable when nothing is left
Null == [tag |-> "null"]

\* JavaScript null where a Variable is expected (no variable bears this name)
NoVariable == "null"

\* a thrown Error
Throws == [tag |-> "throws"]

\* the marker value revise stores in place of an emptied domain
EmptyMarker == "__EMPTY__"

Range(s) == {s[i] : i \in DOMAIN s}

\* Map.set(key, value) on a copy of the map
MapSet(map, key, value) ==
    [k \in DOMAIN map \cup {key} |-> IF k = key THEN value ELSE map[k]]

----------------------------------------------------------------------------
(* Domain: src/src/data/domain.ts *)

\* new Set(values): the distinct values, in order of first occurrence
RECURSIVE ValueSet(_)
ValueSet(values) ==
    IF values = <<>> THEN <<>>
    ELSE LET front == ValueSet(SubSeq(values, 1, Len(values) - 1))
             v == values[Len(values)]
         IN IF v \in Range(front) THEN front ELSE Append(front, v)

\* a constructor without the emptiness test (a faulty variant, used to show
\* that the non-emptiness property depends on the test)
DomainNewUnchecked(values) == [tag |-> "Domain", values |-> ValueSet(values)]

\* Domain.constructor: throws on an empty value set; a Domain object holds
\* its value set
DomainNew(values) ==
    LET valueSet == ValueSet(values)
    IN IF Len(valueSet) = 0 THEN Throws
       ELSE [tag |-> "Domain", values |-> valueSet]

IsDomain(d) == d.tag = "Domain"

\* get size
Size(d) == Len(d.values)

\* Domain.contains
Contains(d, value) == value \in Range(d.values)

\* Domain.filter; the predicate is given by the set of values it accepts
Filter(d, accepted) ==
    LET filtered == SelectSeq(d.values, LAMBDA v : v \in accepted)
    IN IF Len(filtered) > 0 THEN DomainNew(filtered) ELSE Null

\* a remove that keeps the listed values instead of dropping them (a faulty
\* variant, used to show that the remove property depends on the filter)
RemoveKeepsListed(d, valuesToRemove) ==
    LET remaining == SelectSeq(d.values, LAMBDA v : v \in valuesToRemove)
    IN IF Len(remaining) > 0 THEN [tag |-> "Domain", values |-> remaining]
       ELSE Null

\* a remove that constructs its result without testing for emptiness (a
\* faulty variant, used to show that the absence of throws depends on it)
RemoveUnguarded(d, valuesToRemove) ==
    DomainNew(SelectSeq(d.values, LAMBDA v : ~(v \in valuesToRemove)))

\* Domain.remove
Remove(d, valuesToRemove) ==
    LET remaining == SelectSeq(d.values, LAMBDA v : ~(v \in valuesToRemove))
    IN IF Len(remaining) > 0 THEN DomainNew(remaining) ELSE Null

\* Domain.toArray
ToArray(d) == d.values

\* Domain.equals
Equals(d, other) ==
    IF Size(d) # Size(other) THEN FALSE
    ELSE \A i \in 1..Len(d.values) : Contains(other, d.values[i])

----------------------------------------------------------------------------
(* Constraints: src/src/constraints/factories.ts *)

\* !assignment.get(variable): the variable is unbound, or bound to ""
Falsy(assignment, variable) ==
    IF variable \in DOMAIN assignment THEN assignment[variable] = "" ELSE TRUE

\* differentValues: a BinaryConstraint with the predicate v1 !== v2
differentValues(var1, var2) ==
    [kind |-> "binary", var1 |-> var1, var2 |-> var2, scope |-> <<var1, var2>>,
     pred |-> "neq", value |-> "", rowDiff |-> 0]

\* an AllDifferentConstraint constructor without the length test (a faulty
\* variant, used to show that the construction property depends on it)
AllDifferentConstraintUnchecked(variables) ==
    [kind |-> "alldiff", var1 |-> "", var2 |-> "", scope |-> variables,
     pred |-> "", value |-> "", rowDiff |-> 0]

\* AllDifferentConstraint.constructor: throws for fewer than 2 variables
AllDifferentConstraintNew(variables) ==
    IF Len(variables) < 2 THEN Throws
    ELSE [kind |-> "alldiff", var1 |-> "", var2 |-> "", scope |-> variables,
          pred |-> "", value |-> "", rowDiff |-> 0]

\* allDifferent: new AllDifferentConstraint(variables)
allDifferent(variables) == AllDifferentConstraintNew(variables)

\* equalTo: a FunctionConstraint over [variable]
equalTo(variable, value) ==
    [kind |-> "function", var1 |-> variable, var2 |-> "", scope |-> <<variable>>,
     pred |-> "equalTo", value |-> value, rowDiff |-> 0]

\* custom(() => false): a FunctionConstraint with the default scope []
customNever ==
    [kind |-> "function", var1 |-> "", var2 |-> "", scope |-> <<>>,
     pred |-> "never", value |-> "", rowDiff |-> 0]

\* `row${i}` and `col${i}`
RowName(i) == "row" \o ToString(i)

ColName(i) == "col" \o ToString(i)

\* parseInt(col.replace("col", "")) is a number: col names a column
IsColumn(col) == \E k \in 0..MaxQueens : col = ColName(k)

\* parseInt(col.replace("col", "")) on the name of a column
ColIndex(col) == CHOOSE k \in 0..MaxQueens : col = ColName(k)

\* createNQueensProblem: custom(..., [row1, row2]) with rowDiff = j - i
queensApart(row1, row2, rowDiff) ==
    [kind |-> "function", var1 |-> row1, var2 |-> row2,
     scope |-> <<row1, row2>>, pred |-> "queens", value |-> "",
     rowDiff |-> rowDiff]

\* the queens predicate without the diagonal test (a faulty variant, used
\* to show that the small boards are unsolvable because of diagonals)
QueensColumnsOnly(assignment, row1, row2, rowDiff) ==
    IF Falsy(assignment, row1) THEN TRUE
    ELSE IF Falsy(assignment, row2) THEN TRUE
    ELSE assignment[row1] # assignment[row2]

\* createNQueensProblem: the predicate of the constraint between two rows;
\* a comparison with NaN is false
QueensPredicate(assignment, row1, row2, rowDiff) ==
    IF Falsy(assignment, row1) THEN TRUE
    ELSE IF Falsy(assignment, row2) THEN TRUE
    ELSE IF ~IsColumn(assignment[row1]) THEN TRUE
    ELSE IF ~IsColumn(assignment[row2]) THEN TRUE
    ELSE LET c1 == ColIndex(assignment[row1])
             c2 == ColIndex(assignment[row2])
         IN IF c1 = c2 THEN FALSE
            ELSE IF (IF c2 - c1 >= 0 THEN c2 - c1 ELSE c1 - c2) = rowDiff
            THEN FALSE
            ELSE TRUE

\* a stored predicate v1 === v2 (a faulty variant, used to show that the
\* map colouring depends on the predicate of differentValues)
PredicateEquals(c, val1, val2) == val1 = val2

\* the strings of the model in the order of the JavaScript operator <
CodeOrder == <<"", "__EMPTY__", "a", "b">>

\* v1 < v2 on strings
StringLess(v1, v2) ==
    \E i, j \in 1..Len(CodeOrder) :
        i < j /\ CodeOrder[i] = v1 /\ CodeOrder[j] = v2

\* new BinaryConstraint(var1, var2, (v1, v2) => v1 < v2): a constraint whose
\* predicate depends on the order of its arguments
lessThan(var1, var2) ==
    [kind |-> "binary", var1 |-> var1, var2 |-> var2, scope |-> <<var1, var2>>,
     pred |-> "lt", value |-> "", rowDiff |-> 0]

\* new BinaryConstraint(var1, var2, (v1, v2) => v1 === v2)
sameValues(var1, var2) ==
    [kind |-> "binary", var1 |-> var1, var2 |-> var2, scope |-> <<var1, var2>>,
     pred |-> "eq", value |-> "", rowDiff |-> 0]

\* the stored two-argument predicate of a BinaryConstraint
Predicate(c, val1, val2) ==
    CASE c.pred = "neq" -> val1 # val2
      [] c.pred = "eq" -> val1 = val2
      [] c.pred = "lt" -> StringLess(val1, val2)
      [] OTHER -> FALSE

\* BinaryConstraint.isSatisfied
BinaryIsSatisfied(c, assignment) ==
    IF Falsy(assignment, c.var1) THEN TRUE
    ELSE IF Falsy(assignment, c.var2) THEN TRUE
    ELSE Predicate(c, assignment[c.var1], assignment[c.var2])

\* an isSatisfied that compares only the first two variables of the scope (a
\* faulty variant, used to show that example results depend on the full loop)
AllDifferentFirstPair(c, assignment) ==
    IF Falsy(assignment, c.scope[1]) THEN TRUE
    ELSE IF Falsy(assignment, c.scope[2]) THEN TRUE
    ELSE assignment[c.scope[1]] # assignment[c.scope[2]]

\* AllDifferentConstraint.isSatisfied: false at the first repeated truthy value
AllDifferentIsSatisfied(c, assignment) ==
    ~ \E i, j \in 1..Len(c.scope) :
        /\ i < j
        /\ ~Falsy(assignment, c.scope[i])
        /\ ~Falsy(assignment, c.scope[j])
        /\ assignment[c.scope[i]] = assignment[c.scope[j]]

\* FunctionConstraint.isSatisfied: the stored predicate on the assignment
FunctionIsSatisfied(c, assignment) ==
    CASE c.pred = "equalTo" ->
            IF Falsy(assignment, c.var1) THEN TRUE
            ELSE assignment[c.var1] = c.value
      [] c.pred = "queens" ->
            QueensPredicate(assignment, c.var1, c.var2, c.rowDiff)
      [] OTHER -> FALSE

\* Constraint.isSatisfied
IsSatisfied(c, assignment) ==
    CASE c.kind = "binary" -> BinaryIsSatisfied(c, assignment)
      [] c.kind = "alldiff" -> AllDifferentIsSatisfied(c, assignment)
      [] OTHER -> FunctionIsSatisfied(c, assignment)

\* Constraint.getScope
GetScope(c) == c.scope

\* a test that takes every constraint over two variables for a
\* BinaryConstraint (a faulty variant, used to show that the frame property
\* of propagation depends on the instanceof test)
IsScopeOfTwo(c) == Len(c.scope) = 2

\* c instanceof BinaryConstraint
IsBinary(c) == c.kind = "binary"

\* BinaryConstraint.involves
Involves(c, variable) == c.var1 = variable \/ c.var2 = variable

\* BinaryConstraint.getOther
GetOther(c, variable) ==
    IF c.var1 = variable THEN c.var2
    ELSE IF c.var2 = variable THEN c.var1
    ELSE NoVariable

\* getSupportedValues: the two nested for loops from the i-th value of
\* var1Values and the j-th value of var2Values on, with the sets so far
RECURSIVE SupportedLoop(_, _, _, _, _, _)
SupportedLoop(c, var1Values, var2Values, i, j, acc) ==
    IF i > Size(var1Values) THEN acc
    ELSE IF j > Size(var2Values)
    THEN SupportedLoop(c, var1Values, var2Values, i + 1, 1, acc)
    ELSE LET v1 == var1Values.values[i]
             v2 == var2Values.values[j]
         IN IF Predicate(c, v1, v2)
            THEN SupportedLoop(c, var1Values, var2Values, i, j + 1,
                     [var1Supported |-> acc.var1Supported \cup {v1},
                      var2Supported |-> acc.var2Supported \cup {v2}])
            ELSE SupportedLoop(c, var1Values, var2Values, i, j + 1, acc)

\* a getSupportedValues that hands the var2 value to the predicate first (a
\* faulty variant, used to show that the support sets depend on the order)
GetSupportedValuesSwapped(c, var1Values, var2Values) ==
    [var1Supported |->
        {v1 \in Range(var1Values.values) :
            \E v2 \in Range(var2Values.values) : Predicate(c, v2, v1)},
     var2Supported |->
        {v2 \in Range(var2Values.values) :
            \E v1 \in Range(var1Values.values) : Predicate(c, v2, v1)}]

\* BinaryConstraint.getSupportedValues
GetSupportedValues(c, var1Values, var2Values) ==
    SupportedLoop(c, var1Values, var2Values, 1, 1,
        [var1Supported |-> {}, var2Supported |-> {}])

----------------------------------------------------------------------------
(* CSP: src/src/data/csp.ts *)

\* a constructor without the validation of constraint scopes (a faulty
\* variant, used to show that the constructor property depends on it)
CSPNewScopesUnchecked(variables, domainMap, constraints) ==
    IF \E i \in 1..Len(variables) : variables[i] \notin DOMAIN domainMap
    THEN Throws
    ELSE [variables |-> variables, domains |-> domainMap,
          constraints |-> constraints]

\* CSP.constructor: throws unless every variable has a domain and every
\* constraint scope lies within the variables
CSPNew(variables, domainMap, constraints) ==
    IF \E i \in 1..Len(variables) : variables[i] \notin DOMAIN domainMap
    THEN Throws
    ELSE IF \E i \in 1..Len(constraints) :
                \E k \in 1..Len(GetScope(constraints[i])) :
                    GetScope(constraints[i])[k] \notin Range(variables)
    THEN Throws
    ELSE [variables |-> variables, domains |-> domainMap,
          constraints |-> constraints]

\* CSP.getDomain: throws for a variable without a domain
GetDomain(p, variable) ==
    IF variable \in DOMAIN p.domains THEN p.domains[variable] ELSE Throws

\* CSP.getConstraintsInvolving
GetConstraintsInvolving(p, variable) ==
    SelectSeq(p.constraints, LAMBDA c : variable \in Range(GetScope(c)))

\* CSP.isConsistent
IsConsistent(p, assignment) ==
    \A i \in 1..Len(p.constraints) : IsSatisfied(p.constraints[i], assignment)

----------------------------------------------------------------------------
(* SolverState: src/src/solver/state.ts *)

SolverState(assignment, domainMap, stats) ==
    [assignment |-> assignment, domains |-> domainMap, stats |-> stats]

\* an assign that leaves the variable's domain as it was (a faulty variant,
\* used to show that the effect of assign includes the singleton domain)
AssignKeepsDomain(state, variable, value) ==
    SolverState(MapSet(state.assignment, variable, value), state.domains,
        [nodesExplored |-> state.stats.nodesExplored + 1,
         inferencesApplied |-> state.stats.inferencesApplied])

\* SolverState.assign
Assign(state, variable, value) ==
    LET newAssignment == MapSet(state.assignment, variable, value)
        newDomains == MapSet(state.domains, variable, DomainNew(<<value>>))
    IN SolverState(newAssignment, newDomains,
           [nodesExplored |-> state.stats.nodesExplored + 1,
            inferencesApplied |-> state.stats.inferencesApplied])

\* an assign that writes the binding into the receiver's own maps (a faulty
\* variant, used to show that the frame property depends on the copies)
AssignInPlace(state, variable, value) == Assign(state, variable, value)

\* SolverState.assign: the receiver after the call; assign copies the
\* assignment and the domains and writes only to the copies
AssignReceiver(state, variable, value) == state

\* a withInference that leaves inferencesApplied as it was (a faulty
\* variant, used to show that the statistics depend on the increment)
WithInferenceUncounted(state, newDomains) ==
    SolverState(state.assignment, newDomains, state.stats)

\* SolverState.withInference
WithInference(state, newDomains) ==
    SolverState(state.assignment, newDomains,
        [nodesExplored |-> state.stats.nodesExplored,
         inferencesApplied |-> state.stats.inferencesApplied + 1])

----------------------------------------------------------------------------
(* Heuristics: src/src/solver/heuristics.ts *)

\* let minValues = Infinity
Infinity == 1000000

\* the selection loop without `if (state.assignment.has(variable)) continue`
\* (a faulty variant, used to show that assignment growth depends on it)
RECURSIVE SelectLoopAny(_, _, _, _)
SelectLoopAny(p, state, i, best) ==
    IF i > Len(p.variables) THEN best
    ELSE LET variable == p.variables[i]
         IN IF variable \notin DOMAIN state.domains
            THEN SelectLoopAny(p, state, i + 1, best)
            ELSE LET domainSize == Size(state.domains[variable])
                     constraintCount ==
                         Len(GetConstraintsInvolving(p, variable))
                 IN IF \/ domainSize < best.minValues
                       \/ /\ domainSize = best.minValues
                          /\ constraintCount > best.maxConstraints
                    THEN SelectLoopAny(p, state, i + 1,
                             [bestVariable |-> variable,
                              minValues |-> domainSize,
                              maxConstraints |-> constraintCount])
                    ELSE SelectLoopAny(p, state, i + 1, best)

\* a selection loop that keeps the first unassigned variable it meets,
\* whatever the domain sizes (a faulty variant, used to show that the
\* minimum-remaining-values property depends on the comparison)
RECURSIVE SelectLoopFirst(_, _, _, _)
SelectLoopFirst(p, state, i, best) ==
    IF i > Len(p.variables) THEN best
    ELSE LET variable == p.variables[i]
         IN IF variable \in DOMAIN state.assignment
            THEN SelectLoopFirst(p, state, i + 1, best)
            ELSE IF variable \notin DOMAIN state.domains
            THEN SelectLoopFirst(p, state, i + 1, best)
            ELSE IF best.bestVariable = NoVariable
            THEN SelectLoopFirst(p, state, i + 1,
                     [bestVariable |-> variable,
                      minValues |-> Size(state.domains[variable]),
                      maxConstraints |->
                          Len(GetConstraintsInvolving(p, variable))])
            ELSE SelectLoopFirst(p, state, i + 1, best)

\* the for loop of selectUnassignedVariable from index i on, with the
\* running bestVariable, minValues and maxConstraints
RECURSIVE SelectLoop(_, _, _, _)
SelectLoop(p, state, i, best) ==
    IF i > Len(p.variables) THEN best
    ELSE LET variable == p.variables[i]
         IN IF variable \in DOMAIN state.assignment
            THEN SelectLoop(p, state, i + 1, best)
            ELSE IF variable \notin DOMAIN state.domains
            THEN SelectLoop(p, state, i + 1, best)
            ELSE LET domainSize == Size(state.domains[variable])
                     constraintCount ==
                         Len(GetConstraintsInvolving(p, variable))
                 IN IF \/ domainSize < best.minValues
                       \/ /\ domainSize = best.minValues
                          /\ constraintCount > best.maxConstraints
                    THEN SelectLoop(p, state, i + 1,
                             [bestVariable |-> variable,
                              minValues |-> domainSize,
                              maxConstraints |-> constraintCount])
                    ELSE SelectLoop(p, state, i + 1, best)

\* selectUnassignedVariable
SelectUnassignedVariable(p, state) ==
    SelectLoop(p, state, 1,
        [bestVariable |-> NoVariable, minValues |-> Infinity,
         maxConstraints |-> -1]).bestVariable

\* orderDomainValues
OrderDomainValues(p, variable, state) ==
    IF variable \notin DOMAIN state.domains THEN <<>>
    ELSE ToArray(state.domains[variable])

----------------------------------------------------------------------------
(* AC-3: src/src/solver/inference.ts *)

Arc(xi, xj, constraint) == [xi |-> xi, xj |-> xj, constraint |-> constraint]

\* the arcs (other, variable, c) pushed for the binary constraints among
\* constraints[i..] that involve variable, leaving out those whose other
\* end is `except`
RECURSIVE ArcsTo(_, _, _, _)
ArcsTo(constraints, i, variable, except) ==
    IF i > Len(constraints) THEN <<>>
    ELSE LET c == constraints[i]
             rest == ArcsTo(constraints, i + 1, variable, except)
         IN IF IsBinary(c) /\ Involves(c, variable)
            THEN LET other == GetOther(c, variable)
                 IN IF other # NoVariable /\ other # "" /\ other # except
                    THEN <<Arc(other, variable, c)>> \o rest
                    ELSE rest
            ELSE rest

\* initializeArcQueue
InitializeArcQueue(p, recentVariable) ==
    ArcsTo(p.constraints, 1, recentVariable, NoVariable)

\* a revise that reads the support set of the other end of the constraint
\* (a faulty variant, used to show that solution preservation depends on
\* the choice of the set)
ToRemoveOtherEnd(xiDomain, xjDomain, xi, constraint) ==
    LET sv == GetSupportedValues(constraint,
                  IF constraint.var1 = xi THEN xiDomain ELSE xjDomain,
                  IF constraint.var1 = xi THEN xjDomain ELSE xiDomain)
        supported == IF constraint.var1 = xi THEN sv.var2Supported
                     ELSE sv.var1Supported
    IN {value \in Range(xiDomain.values) : value \notin supported}

\* revise: the values of xi's domain that have no support in xj's
ToRemove(xiDomain, xjDomain, xi, constraint) ==
    LET sv == GetSupportedValues(constraint,
                  IF constraint.var1 = xi THEN xiDomain ELSE xjDomain,
                  IF constraint.var1 = xi THEN xjDomain ELSE xiDomain)
        supported == IF constraint.var1 = xi THEN sv.var1Supported
                     ELSE sv.var2Supported
    IN {value \in Range(xiDomain.values) : value \notin supported}

\* revise: the domains map after the call, and the value returned
Revise(doms, xi, xj, constraint) ==
    IF xi \notin DOMAIN doms \/ xj \notin DOMAIN doms
    THEN [domains |-> doms, revised |-> FALSE]
    ELSE LET xiDomain == doms[xi]
             toRemove == ToRemove(xiDomain, doms[xj], xi, constraint)
         IN IF Cardinality(toRemove) > 0
            THEN LET newDomain == Remove(xiDomain, toRemove)
                 IN IF newDomain # Null
                    THEN [domains |-> MapSet(doms, xi, newDomain),
                          revised |-> TRUE]
                    ELSE [domains |->
                              MapSet(doms, xi, DomainNew(<<EmptyMarker>>)),
                          revised |-> TRUE]
            ELSE [domains |-> doms, revised |-> FALSE]

\* the wipeout test of ac3Inference on a revised arc
Wipeout(doms, xi) == xi \notin DOMAIN doms \/ Size(doms[xi]) = 0

\* search.ts isComplete
IsComplete(p, assignment) ==
    Cardinality(DOMAIN assignment) = Len(p.variables)

----------------------------------------------------------------------------
(* The CSPs handed to the solver *)

VarNames == <<"A", "B", "C", "D">>

ValueUniverse == {"", "a", "b"}

Colors == <<"red", "blue", "green">>

EmptyAssignment == [v \in {} |-> ""]

\* the value lists a generated domain is built from
DomainValues ==
    {s \in UNION {[1..k -> ValueUniverse] : k \in 1..MaxDomainSize} :
        \A i, j \in DOMAIN s : i # j => s[i] # s[j]}

\* pairwise constraints between neighbours in the list only (a faulty
\* variant, used to show that the hard map result depends on all pairs)
RECURSIVE PairwiseAdjacent(_, _, _)
PairwiseAdjacent(variables, i, j) ==
    IF i >= Len(variables) THEN <<>>
    ELSE <<differentValues(variables[i], variables[i + 1])>>
             \o PairwiseAdjacent(variables, i + 1, i + 2)

\* CSPBuilder.addPairwiseConstraints(variables, differentValues): the
\* constraints for the pairs (i, j), i < j, in the order of the two loops
RECURSIVE Pairwise(_, _, _)
Pairwise(variables, i, j) ==
    IF i > Len(variables) THEN <<>>
    ELSE IF j > Len(variables) THEN Pairwise(variables, i + 1, i + 2)
    ELSE <<differentValues(variables[i], variables[j])>>
             \o Pairwise(variables, i, j + 1)

\* the constraints a generated CSP draws from, over the given variables
Pool(variables) ==
    Pairwise(variables, 1, 2)
    \o (IF Len(variables) >= 2 THEN <<allDifferent(variables)>> ELSE <<>>)
    \o (IF Len(variables) >= 1 THEN <<equalTo(variables[1], "a")>> ELSE <<>>)
    \o <<customNever>>

\* the constraints of pool at the positions in S, in pool order
Pick(pool, S) == SelectSeq(pool, LAMBDA c : \E i \in S : pool[i] = c)

\* CSPBuilder: addVariables(variables, values), then addConstraint for each
\* constraint, then build
BuildCSP(variables, values, constraints) ==
    CSPNew(variables, [v \in Range(variables) |-> DomainNew(values)],
           constraints)

GeneratedCSPs ==
    UNION {
        {BuildCSP(SubSeq(VarNames, 1, n), values,
                  Pick(Pool(SubSeq(VarNames, 1, n)), S)) :
            values \in DomainValues,
            S \in SUBSET (1..Len(Pool(SubSeq(VarNames, 1, n))))} :
        n \in 0..MaxVars}

\* createHardMapProblem with the first k colours (the repository's has 2)
HardMapProblem(k) ==
    BuildCSP(<<"A", "B", "C", "D">>, SubSeq(Colors, 1, k),
             Pairwise(<<"A", "B", "C", "D">>, 1, 2))

\* new CSP(["A", "A"], ...): the constructor accepts a repeated variable
RepeatedVariableCSP == BuildCSP(<<"A", "A">>, <<"a">>, <<>>)

\* a CSP whose only variable is named by the empty string
EmptyNameCSP == BuildCSP(<<"">>, <<"a">>, <<>>)

\* a CSP with a binary constraint between B and the variable named by the
\* empty string
EmptyNameArcCSP ==
    BuildCSP(<<"B", "">>, <<"a", "b">>, <<differentValues("", "B")>>)

\* a CSP in which C must equal A and differ from B, over a single value
SameAndDifferentCSP ==
    BuildCSP(<<"A", "B", "C">>, <<"a">>,
             <<sameValues("A", "C"), differentValues("B", "C"),
               equalTo("A", "a"), equalTo("B", "a")>>)

\* a CSP with two binary constraints between the same two variables
TwoConstraintCSP ==
    BuildCSP(<<"A", "B">>, <<"a", "b">>,
             <<differentValues("A", "B"), differentValues("B", "A")>>)

\* createNQueensProblem: the constraints for the pairs i < j, 0-based, in
\* the order of the two loops
RECURSIVE QueenConstraints(_, _, _)
QueenConstraints(n, i, j) ==
    IF i >= n THEN <<>>
    ELSE IF j >= n THEN QueenConstraints(n, i + 1, i + 2)
    ELSE <<queensApart(RowName(i), RowName(j), j - i)>>
             \o QueenConstraints(n, i, j + 1)

\* createNQueensProblem
NQueensProblem(n) ==
    CSPNew([i \in 1..n |-> RowName(i - 1)],
           [row \in {RowName(i) : i \in 0..(n - 1)} |->
               DomainNew([i \in 1..n |-> ColName(i - 1)])],
           QueenConstraints(n, 0, 1))

\* createAustraliaMapProblem
AustraliaMapProblem ==
    BuildCSP(<<"WA", "NT", "SA", "Q", "NSW", "V", "T">>,
             <<"red", "green", "blue">>,
             <<differentValues("WA", "NT"), differentValues("WA", "SA"),
               differentValues("NT", "SA"), differentValues("NT", "Q"),
               differentValues("SA", "Q"), differentValues("SA", "NSW"),
               differentValues("SA", "V"), differentValues("Q", "NSW"),
               differentValues("NSW", "V")>>)

\* examples/usage.ts example1: addVariables, addAllDifferent, equalTo
Example1CSP ==
    BuildCSP(<<"A", "B", "C">>, <<"1", "2", "3">>,
             <<allDifferent(<<"A", "B", "C">>), equalTo("A", "1")>>)

CSPFamily ==
    GeneratedCSPs
    \cup {HardMapProblem(k) : k \in 1..MaxColors}
    \cup {RepeatedVariableCSP, EmptyNameCSP, EmptyNameArcCSP, TwoConstraintCSP}
    \cup {SameAndDifferentCSP}
    \cup {Example1CSP, AustraliaMapProblem}
    \cup {NQueensProblem(n) : n \in 1..MaxQueens}

----------------------------------------------------------------------------
(* solveCSP and search: src/src/solver/index.ts, src/src/solver/search.ts *)

\* solveCSP: the initial state
InitialState(p) ==
    SolverState(EmptyAssignment,
        [v \in Range(p.variables) |-> GetDomain(p, v)],
        [nodesExplored |-> 0, inferencesApplied |-> 0])

Top == stack[Len(stack)]

Pop == SubSeq(stack, 1, Len(stack) - 1)

\* a loop that goes on from the state of the branch that failed (a faulty
\* variant, used to show that isolation depends on the loop keeping `state`)
NextValueFromBranch ==
    [stack EXCEPT ![Len(stack)].i = @ + 1, ![Len(stack)].state = newState]

\* search: the for loop moves to the next value; `state` is what it was
NextValue == [stack EXCEPT ![Len(stack)].i = @ + 1]

\* search: the stack once state.assign(variable, value) has been called on
\* the state of the innermost call
AfterAssign ==
    [stack EXCEPT ![Len(stack)].state =
        AssignReceiver(Top.state, Top.variable, Top.values[Top.i])]

\* no Domain object yet, no operation yet
Idle == [tag |-> "idle"]

NoOp == [name |-> "none", values |-> <<>>, set |-> {}, n |-> 0]

\* no single call made
NoCall == [name |-> "none"]

\* no CSPBuilder constructed
NoBuilder == [tag |-> "idle"]

\* solveCSP has not returned from a first run
NoRun == [tag |-> "none"]

Init ==
    /\ csp \in CSPFamily
    /\ pc = "start"
    /\ cur = Null
    /\ stack = <<>>
    /\ newState = Null
    /\ queue = <<>>
    /\ domains = Null
    /\ ret = Null
    /\ result = Null
    /\ last = "init"
    /\ dom = Idle
    /\ assigns = 0
    /\ orig = Idle
    /\ op = NoOp
    /\ call = NoCall
    /\ builder = NoBuilder
    /\ first = NoRun

\* solveCSP up to the call of search
SolveStart ==
    /\ pc = "start"
    /\ cur' = InitialState(csp)
    /\ pc' = "search"
    /\ last' = "solveCSP"
    /\ UNCHANGED <<csp, stack, newState, queue, domains, ret, result, assigns>>
    /\ UNCHANGED exerciseVars

\* search: the base case, every variable assigned
SearchComplete ==
    /\ pc = "search"
    /\ IsComplete(csp, cur.assignment)
    /\ ret' = cur
    /\ pc' = "return"
    /\ last' = "complete"
    /\ UNCHANGED <<csp, cur, stack, newState, queue, domains, result, assigns>>
    /\ UNCHANGED exerciseVars

\* search: selectUnassignedVariable gave nothing usable (!variable)
SearchNoVariable ==
    /\ pc = "search"
    /\ ~IsComplete(csp, cur.assignment)
    /\ LET variable == SelectUnassignedVariable(csp, cur)
       IN variable = NoVariable \/ variable = ""
    /\ ret' = Null
    /\ pc' = "return"
    /\ last' = "no-variable"
    /\ UNCHANGED <<csp, cur, stack, newState, queue, domains, result, assigns>>
    /\ UNCHANGED exerciseVars

\* a search that branches on any unassigned variable (a faulty variant,
\* used to show that determinism depends on the scan of csp.variables)
SearchSelectAny ==
    /\ pc = "search"
    /\ ~IsComplete(csp, cur.assignment)
    /\ \E variable \in Range(csp.variables) \ DOMAIN cur.assignment :
          /\ variable # ""
          /\ stack' = Append(stack,
                 [state |-> cur, variable |-> variable,
                  values |-> OrderDomainValues(csp, variable, cur),
                  i |-> 1])
    /\ pc' = "loop"
    /\ last' = "select"
    /\ UNCHANGED <<csp, cur, newState, queue, domains, ret, result, assigns>>
    /\ UNCHANGED exerciseVars

\* search: a variable is selected and its values ordered
SearchSelect ==
    /\ pc = "search"
    /\ ~IsComplete(csp, cur.assignment)
    /\ LET variable == SelectUnassignedVariable(csp, cur)
       IN /\ variable # NoVariable
          /\ variable # ""
          /\ stack' = Append(stack,
                 [state |-> cur, variable |-> variable,
                  values |-> OrderDomainValues(csp, variable, cur),
                  i |-> 1])
    /\ pc' = "loop"
    /\ last' = "select"
    /\ UNCHANGED <<csp, cur, newState, queue, domains, ret, result, assigns>>
    /\ UNCHANGED exerciseVars

\* search: the next value is assigned and violates a constraint
TryValueInconsistent ==
    /\ pc = "loop"
    /\ Top.i <= Len(Top.values)
    /\ LET ns == Assign(Top.state, Top.variable, Top.values[Top.i])
       IN /\ ~IsConsistent(csp, ns.assignment)
          /\ newState' = ns
    /\ stack' = [AfterAssign EXCEPT ![Len(stack)].i = @ + 1]
    /\ pc' = "loop"
    /\ last' = "inconsistent"
    /\ assigns' = assigns + 1
    /\ UNCHANGED <<csp, cur, queue, domains, ret, result>>
    /\ UNCHANGED exerciseVars

\* the step below without the isConsistent test (a faulty variant, used to
\* show that the consistency of recursed states depends on the test)
TryValueUnchecked ==
    /\ pc = "loop"
    /\ Top.i <= Len(Top.values)
    /\ LET ns == Assign(Top.state, Top.variable, Top.values[Top.i])
       IN /\ newState' = ns
          /\ queue' = InitializeArcQueue(csp, Top.variable)
          /\ domains' = ns.domains
    /\ pc' = "ac3"
    /\ last' = "assign"
    /\ stack' = AfterAssign
    /\ assigns' = assigns + 1
    /\ UNCHANGED <<csp, cur, ret, result>>
    /\ UNCHANGED exerciseVars

\* search: the next value is assigned, is consistent, and ac3Inference
\* is entered: its queue is initialised and the domains copied
TryValuePropagate ==
    /\ pc = "loop"
    /\ Top.i <= Len(Top.values)
    /\ LET ns == Assign(Top.state, Top.variable, Top.values[Top.i])
       IN /\ IsConsistent(csp, ns.assignment)
          /\ newState' = ns
          /\ queue' = InitializeArcQueue(csp, Top.variable)
          /\ domains' = ns.domains
    /\ pc' = "ac3"
    /\ last' = "assign"
    /\ stack' = AfterAssign
    /\ assigns' = assigns + 1
    /\ UNCHANGED <<csp, cur, ret, result>>
    /\ UNCHANGED exerciseVars

\* ac3Inference: one turn of the while loop
Ac3Revise ==
    /\ pc = "ac3"
    /\ queue # <<>>
    /\ LET arc == Head(queue)
           r == Revise(domains, arc.xi, arc.xj, arc.constraint)
       IN IF r.revised /\ ~IsDomain(r.domains[arc.xi])
          THEN \* a Domain constructor threw inside revise: the error
               \* leaves ac3Inference, search and solveCSP
               /\ domains' = domains
               /\ queue' = queue
               /\ stack' = <<>>
               /\ pc' = "done"
               /\ last' = "throws"
               /\ result' = Throws
          ELSE IF r.revised
          THEN IF Wipeout(r.domains, arc.xi)
               THEN \* return null; search goes on with the next value
                    /\ domains' = r.domains
                    /\ queue' = Tail(queue)
                    /\ stack' = NextValue
                    /\ pc' = "loop"
                    /\ last' = "wipeout"
                    /\ result' = result
               ELSE /\ domains' = r.domains
                    /\ queue' = Tail(queue)
                           \o ArcsTo(csp.constraints, 1, arc.xi, arc.xj)
                    /\ stack' = stack
                    /\ pc' = "ac3"
                    /\ last' = IF EmptyMarker \in Range(r.domains[arc.xi].values)
                               THEN "marked" ELSE "revised"
                    /\ result' = result
          ELSE /\ domains' = r.domains
               /\ queue' = Tail(queue)
               /\ stack' = stack
               /\ pc' = "ac3"
               /\ last' = "unrevised"
               /\ result' = result
    /\ UNCHANGED <<csp, cur, newState, ret, assigns>>
    /\ UNCHANGED exerciseVars

\* ac3Inference returns state.withInference(domains) and search recurses
Ac3Done ==
    /\ pc = "ac3"
    /\ queue = <<>>
    /\ cur' = WithInference(newState, domains)
    /\ pc' = "search"
    /\ last' = "recurse"
    /\ UNCHANGED <<csp, stack, newState, queue, domains, ret, result, assigns>>
    /\ UNCHANGED exerciseVars

\* a search that goes on with the next value after the recursive call
\* returned a solution (a faulty variant, used to show that the first-found
\* property depends on `if (result) return result`)
ReturnSolutionContinues ==
    /\ pc = "return"
    /\ stack # <<>>
    /\ ret # Null
    /\ stack' = NextValue
    /\ pc' = "loop"
    /\ last' = "return-solution"
    /\ UNCHANGED <<csp, cur, newState, queue, domains, ret, result, assigns>>
    /\ UNCHANGED exerciseVars

\* search: the recursive call returned a solution, which is returned
ReturnSolution ==
    /\ pc = "return"
    /\ stack # <<>>
    /\ ret # Null
    /\ stack' = Pop
    /\ pc' = "return"
    /\ last' = "return-solution"
    /\ UNCHANGED <<csp, cur, newState, queue, domains, ret, result, assigns>>
    /\ UNCHANGED exerciseVars

\* search: the recursive call returned null, the loop goes on
Backtrack ==
    /\ pc = "return"
    /\ stack # <<>>
    /\ ret = Null
    /\ stack' = NextValue
    /\ pc' = "loop"
    /\ last' = "backtrack"
    /\ UNCHANGED <<csp, cur, newState, queue, domains, ret, result, assigns>>
    /\ UNCHANGED exerciseVars

\* search: every value tried, return null
LoopExhausted ==
    /\ pc = "loop"
    /\ Top.i > Len(Top.values)
    /\ stack' = Pop
    /\ ret' = Null
    /\ pc' = "return"
    /\ last' = "exhausted"
    /\ UNCHANGED <<csp, cur, newState, queue, domains, result, assigns>>
    /\ UNCHANGED exerciseVars

\* solveCSP after search returned
SolveReturn ==
    /\ pc = "return"
    /\ stack = <<>>
    /\ result' =
          IF ret # Null
          THEN [success |-> TRUE, assignment |-> ret.assignment,
                stats |-> ret.stats]
          ELSE [success |-> FALSE,
                reason |-> "No solution exists that satisfies all constraints",
                stats |-> InitialState(csp).stats]
    /\ pc' = "done"
    /\ last' = "result"
    /\ UNCHANGED <<csp, cur, stack, newState, queue, domains, ret, assigns>>
    /\ UNCHANGED exerciseVars

Next ==
    \/ SolveStart
    \/ SearchComplete
    \/ SearchNoVariable
    \/ SearchSelect
    \/ TryValueInconsistent
    \/ TryValuePropagate
    \/ Ac3Revise
    \/ Ac3Done
    \/ ReturnSolution
    \/ Backtrack
    \/ LoopExhausted
    \/ SolveReturn

Spec == Init /\ [][Next]_vars

\* solveCSP is synchronous and single-threaded: it keeps running
FairSpec == Spec /\ WF_vars(Next)

\* solveCSP is called a second time on the same CSP: the result of the
\* first run is kept and the solver starts afresh
SolveAgain ==
    /\ pc = "done"
    /\ first = NoRun
    /\ first' = result
    /\ pc' = "start"
    /\ cur' = Null
    /\ stack' = <<>>
    /\ newState' = Null
    /\ queue' = <<>>
    /\ domains' = Null
    /\ ret' = Null
    /\ result' = Null
    /\ last' = "init"
    /\ assigns' = 0
    /\ UNCHANGED <<csp, dom, orig, op, call, builder>>

NextTwoRuns ==
    \/ Next
    \/ SolveAgain

SpecTwoRuns == Init /\ [][NextTwoRuns]_vars

----------------------------------------------------------------------------
(* The Domain class on its own: a Domain is constructed from a list of     *)
(* values, then filter and remove are applied to it, each result being the *)
(* receiver of the next call.                                              *)

\* the lists a Domain is constructed from: empty, with repeats, in any order
ValueLists == UNION {[1..k -> ValueUniverse] : k \in 0..MaxDomainSize}

InitDomain ==
    /\ csp = Null
    /\ pc = "idle"
    /\ cur = Null
    /\ stack = <<>>
    /\ newState = Null
    /\ queue = <<>>
    /\ domains = Null
    /\ ret = Null
    /\ result = Null
    /\ last = "init"
    /\ dom = Idle
    /\ assigns = 0
    /\ orig = Idle
    /\ op = NoOp
    /\ call = NoCall
    /\ builder = NoBuilder
    /\ first = NoRun

\* new Domain(values)
DomainConstruct ==
    /\ dom = Idle
    /\ \E values \in ValueLists :
          /\ dom' = DomainNew(values)
          /\ op' = [name |-> "new", values |-> values, set |-> {},
                    n |-> op.n + 1]
    /\ orig' = Idle
    /\ UNCHANGED <<solverVars, call, builder, first>>

\* dom.filter(v => accepted.has(v)); orig is the receiver after the call
DomainFilter ==
    /\ IsDomain(dom)
    /\ op.n < MaxOps
    /\ \E accepted \in SUBSET ValueUniverse :
          /\ dom' = Filter(dom, accepted)
          /\ op' = [name |-> "filter", values |-> <<>>, set |-> accepted,
                    n |-> op.n + 1]
    /\ orig' = dom
    /\ UNCHANGED <<solverVars, call, builder, first>>

\* dom.remove(valuesToRemove); orig is the receiver after the call
DomainRemove ==
    /\ IsDomain(dom)
    /\ op.n < MaxOps
    /\ \E valuesToRemove \in SUBSET ValueUniverse :
          /\ dom' = Remove(dom, valuesToRemove)
          /\ op' = [name |-> "remove", values |-> <<>>,
                    set |-> valuesToRemove, n |-> op.n + 1]
    /\ orig' = dom
    /\ UNCHANGED <<solverVars, call, builder, first>>

NextDomain ==
    \/ DomainConstruct
    \/ DomainFilter
    \/ DomainRemove

SpecDomain == InitDomain /\ [][NextDomain]_vars

----------------------------------------------------------------------------
(* Single calls: the CSP constructor and the isSatisfied methods, each     *)
(* called once on arguments drawn from small sets.                         *)

ArgNames == {VarNames[i] : i \in 1..MaxArgs}

\* the variables argument: any list of names, repeats included
VariableLists == UNION {[1..k -> ArgNames] : k \in 0..MaxArgs}

\* the domains argument: a Map with a Domain for some of the names
DomainMaps ==
    UNION {[S -> {DomainNew(<<"a", "b">>)}] : S \in SUBSET ArgNames}

\* the constraints argument: some of these, in this order
ConstructorPool == <<differentValues("A", "B"), equalTo("A", "a"), customNever>>

\* an Assignment: a Map binding some of the names to strings
Assignments == UNION {[S -> ValueUniverse] : S \in SUBSET ArgNames}

\* the scopes of an all-different constraint: lists of distinct names
ScopeLists ==
    {scope \in UNION {[1..k -> ArgNames] : k \in 2..(MaxArgs + 1)} :
        \A i, j \in DOMAIN scope : i # j => scope[i] # scope[j]}

InitCalls == InitDomain

\* new CSP(variables, domains, constraints)
CallCSPConstructor ==
    /\ call = NoCall
    /\ \E variables \in VariableLists, domainMap \in DomainMaps,
          S \in SUBSET (1..Len(ConstructorPool)) :
          call' = [name |-> "CSP", variables |-> variables,
                   domains |-> domainMap,
                   constraints |-> Pick(ConstructorPool, S),
                   result |-> CSPNew(variables, domainMap,
                                     Pick(ConstructorPool, S))]
    /\ UNCHANGED <<solverVars, domainVars, builder, first>>

\* allDifferent(scope).isSatisfied(assignment)
CallAllDifferentIsSatisfied ==
    /\ call = NoCall
    /\ \E scope \in ScopeLists, assignment \in Assignments :
          call' = [name |-> "AllDifferent", constraint |-> allDifferent(scope),
                   assignment |-> assignment,
                   result |-> IsSatisfied(allDifferent(scope), assignment)]
    /\ UNCHANGED <<solverVars, domainVars, builder, first>>

\* differentValues(var1, var2).isSatisfied(assignment)
CallBinaryIsSatisfied ==
    /\ call = NoCall
    /\ \E var1 \in ArgNames, var2 \in ArgNames, assignment \in Assignments :
          call' = [name |-> "Binary",
                   constraint |-> differentValues(var1, var2),
                   assignment |-> assignment,
                   result |-> IsSatisfied(differentValues(var1, var2),
                                          assignment)]
    /\ UNCHANGED <<solverVars, domainVars, builder, first>>

\* constraint.getSupportedValues(var1Values, var2Values), for a symmetric
\* and for an order-dependent predicate
CallGetSupportedValues ==
    /\ call = NoCall
    /\ \E c \in {differentValues("A", "B"), lessThan("A", "B")},
          values1 \in DomainValues, values2 \in DomainValues :
          call' = [name |-> "getSupportedValues", constraint |-> c,
                   var1Values |-> DomainNew(values1),
                   var2Values |-> DomainNew(values2),
                   result |-> GetSupportedValues(c, DomainNew(values1),
                                                 DomainNew(values2))]
    /\ UNCHANGED <<solverVars, domainVars, builder, first>>

\* new AllDifferentConstraint(variables) and allDifferent(variables), each
\* followed by getScope() on the constraint it gave
CallAllDifferentConstructor ==
    /\ call = NoCall
    /\ \E variables \in UNION {[1..k -> ArgNames] : k \in 0..(MaxArgs + 1)},
          via \in {"constructor", "factory"} :
          LET constraint == IF via = "factory" THEN allDifferent(variables)
                            ELSE AllDifferentConstraintNew(variables)
          IN call' = [name |-> "allDifferent", via |-> via,
                      variables |-> variables,
                      result |-> IF constraint = Throws THEN Throws
                                 ELSE [scope |-> GetScope(constraint)]]
    /\ UNCHANGED <<solverVars, domainVars, builder, first>>

NextCalls ==
    \/ CallAllDifferentConstructor
    \/ CallCSPConstructor
    \/ CallAllDifferentIsSatisfied
    \/ CallBinaryIsSatisfied
    \/ CallGetSupportedValues

SpecCalls == InitCalls /\ [][NextCalls]_vars

----------------------------------------------------------------------------
(* CSPBuilder: src/src/data/csp-builder.ts.  The variables Set is the       *)
(* sequence of its members in insertion order.  A method gives the builder *)
(* after the call and whether the call threw; a caller that catches the    *)
(* error goes on with the same builder.                                    *)

\* new CSPBuilder(): the field initialisers
BuilderNew ==
    [variables |-> <<>>, domains |-> EmptyAssignment, constraints |-> <<>>]

\* an addVariable that overwrites a variable already present (a faulty
\* variant, used to show that the first domain is kept by the test)
AddVariableOverwrites(b, variable, values) ==
    IF DomainNew(values) = Throws THEN [builder |-> b, threw |-> TRUE]
    ELSE [builder |->
              [b EXCEPT !.variables = IF variable \in Range(@) THEN @
                                      ELSE Append(@, variable),
                        !.domains = MapSet(@, variable, DomainNew(values))],
          threw |-> FALSE]

\* CSPBuilder.addVariable: the variable is added to the Set before
\* new Domain(values) is evaluated
AddVariable(b, variable, values) ==
    IF variable \in Range(b.variables)
    THEN [builder |-> b, threw |-> TRUE]
    ELSE LET added == [b EXCEPT !.variables = Append(@, variable)]
         IN IF DomainNew(values) = Throws
            THEN [builder |-> added, threw |-> TRUE]
            ELSE [builder |->
                      [added EXCEPT !.domains =
                          MapSet(@, variable, DomainNew(values))],
                  threw |-> FALSE]

\* the for loop of addVariables from index i on
RECURSIVE AddVariablesLoop(_, _, _, _)
AddVariablesLoop(b, variables, i, domain) ==
    IF i > Len(variables) THEN [builder |-> b, threw |-> FALSE]
    ELSE IF variables[i] \in Range(b.variables)
    THEN [builder |-> b, threw |-> TRUE]
    ELSE AddVariablesLoop(
             [b EXCEPT !.variables = Append(@, variables[i]),
                       !.domains = MapSet(@, variables[i], domain)],
             variables, i + 1, domain)

\* CSPBuilder.addVariables: new Domain(values) is evaluated first
AddVariables(b, variables, values) ==
    IF DomainNew(values) = Throws THEN [builder |-> b, threw |-> TRUE]
    ELSE AddVariablesLoop(b, variables, 1, DomainNew(values))

\* an addConstraint without the scope test (a faulty variant, used to show
\* that the validity of built CSPs depends on it)
AddConstraintUnchecked(b, constraint) ==
    [builder |-> [b EXCEPT !.constraints = Append(@, constraint)],
     threw |-> FALSE]

\* CSPBuilder.addConstraint
AddConstraint(b, constraint) ==
    LET scope == GetScope(constraint)
        unknown == SelectSeq(scope, LAMBDA v : v \notin Range(b.variables))
    IN IF Len(unknown) > 0 THEN [builder |-> b, threw |-> TRUE]
       ELSE [builder |-> [b EXCEPT !.constraints = Append(@, constraint)],
             threw |-> FALSE]

\* CSPBuilder.addAllDifferent
AddAllDifferent(b, variables) ==
    LET unknown == SelectSeq(variables, LAMBDA v : v \notin Range(b.variables))
    IN IF Len(unknown) > 0 THEN [builder |-> b, threw |-> TRUE]
       ELSE IF allDifferent(variables) = Throws
       THEN [builder |-> b, threw |-> TRUE]
       ELSE AddConstraint(b, allDifferent(variables))

\* addPairwiseConstraints: addConstraint for the constraints from index i
\* on, up to the first that throws
RECURSIVE AddEach(_, _, _)
AddEach(b, constraints, i) ==
    IF i > Len(constraints) THEN [builder |-> b, threw |-> FALSE]
    ELSE LET r == AddConstraint(b, constraints[i])
         IN IF r.threw THEN r ELSE AddEach(r.builder, constraints, i + 1)

\* CSPBuilder.addPairwiseConstraints(variables, differentValues)
AddPairwiseConstraints(b, variables) ==
    AddEach(b, Pairwise(variables, 1, 2), 1)

\* CSPBuilder.build
Build(b) ==
    IF Len(b.variables) = 0 THEN Throws
    ELSE CSPNew(b.variables, b.domains, b.constraints)

\* the arguments of the builder calls
BuilderNames == {"A", "B"}

BuilderValueLists == {<<>>, <<"a">>, <<"a", "b">>}

BuilderVariableLists ==
    {<<"A">>, <<"A", "B">>, <<"B", "A">>, <<"A", "A">>, <<"A", "B", "C">>}

BuilderConstraints ==
    {differentValues("A", "B"), equalTo("A", "a"), equalTo("B", "a"),
     customNever}

NoConstraint == [kind |-> "none"]

NotBuilt == [tag |-> "none"]

\* the builder variable after a call: the object, the object before the
\* call, the call and its arguments, whether it threw, what build returned
AfterCall(r, name, variables, values, constraint, built) ==
    [obj |-> r.builder, before |-> builder.obj, name |-> name,
     variables |-> variables, values |-> values, constraint |-> constraint,
     threw |-> r.threw, built |-> built, n |-> builder.n + 1]

InitBuilder ==
    /\ csp = Null
    /\ pc = "idle"
    /\ cur = Null
    /\ stack = <<>>
    /\ newState = Null
    /\ queue = <<>>
    /\ domains = Null
    /\ ret = Null
    /\ result = Null
    /\ last = "init"
    /\ dom = Idle
    /\ assigns = 0
    /\ orig = Idle
    /\ op = NoOp
    /\ call = NoCall
    /\ builder = [obj |-> BuilderNew, before |-> BuilderNew, name |-> "new",
                  variables |-> <<>>, values |-> <<>>,
                  constraint |-> NoConstraint, threw |-> FALSE,
                  built |-> NotBuilt, n |-> 0]
    /\ first = NoRun

BuilderAddVariable ==
    /\ builder.n < MaxBuilderCalls
    /\ \E variable \in BuilderNames, values \in BuilderValueLists :
          builder' = AfterCall(AddVariable(builder.obj, variable, values),
                         "addVariable", <<variable>>, values, NoConstraint,
                         NotBuilt)
    /\ UNCHANGED <<solverVars, domainVars, call, first>>

BuilderAddVariables ==
    /\ builder.n < MaxBuilderCalls
    /\ \E variables \in BuilderVariableLists, values \in BuilderValueLists :
          builder' = AfterCall(AddVariables(builder.obj, variables, values),
                         "addVariables", variables, values, NoConstraint,
                         NotBuilt)
    /\ UNCHANGED <<solverVars, domainVars, call, first>>

BuilderAddConstraint ==
    /\ builder.n < MaxBuilderCalls
    /\ \E constraint \in BuilderConstraints :
          builder' = AfterCall(AddConstraint(builder.obj, constraint),
                         "addConstraint", <<>>, <<>>, constraint, NotBuilt)
    /\ UNCHANGED <<solverVars, domainVars, call, first>>

BuilderAddAllDifferent ==
    /\ builder.n < MaxBuilderCalls
    /\ \E variables \in BuilderVariableLists :
          builder' = AfterCall(AddAllDifferent(builder.obj, variables),
                         "addAllDifferent", variables, <<>>, NoConstraint,
                         NotBuilt)
    /\ UNCHANGED <<solverVars, domainVars, call, first>>

BuilderAddPairwiseConstraints ==
    /\ builder.n < MaxBuilderCalls
    /\ \E variables \in BuilderVariableLists :
          builder' = AfterCall(AddPairwiseConstraints(builder.obj, variables),
                         "addPairwiseConstraints", variables, <<>>,
                         NoConstraint, NotBuilt)
    /\ UNCHANGED <<solverVars, domainVars, call, first>>

\* build() leaves the builder as it is
BuilderBuild ==
    /\ builder.n < MaxBuilderCalls
    /\ builder' = AfterCall(
           [builder |-> builder.obj, threw |-> Build(builder.obj) = Throws],
           "build", <<>>, <<>>, NoConstraint, Build(builder.obj))
    /\ UNCHANGED <<solverVars, domainVars, call, first>>

NextBuilder ==
    \/ BuilderAddVariable
    \/ BuilderAddVariables
    \/ BuilderAddConstraint
    \/ BuilderAddAllDifferent
    \/ BuilderAddPairwiseConstraints
    \/ BuilderBuild

SpecBuilder == InitBuilder /\ [][NextBuilder]_vars

----------------------------------------------------------------------------
(* Vocabulary of the properties *)

\* the variables of p are pairwise distinct
DistinctVariables(p) == Cardinality(Range(p.variables)) = Len(p.variables)

\* the assignments of each variable of p to a value of its own domain
CompleteAssignments(p) ==
    {a \in [Range(p.variables) ->
               UNION {Range(p.domains[v].values) : v \in Range(p.variables)}] :
        \A v \in Range(p.variables) : Contains(p.domains[v], a[v])}

\* some assignment of domain values satisfies every constraint of p
Satisfiable(p) == \E a \in CompleteAssignments(p) : IsConsistent(p, a)

\* every value of each end of every binary constraint has a support at the
\* other end
ArcConsistent(p, doms) ==
    \A i \in 1..Len(p.constraints) :
        LET c == p.constraints[i]
        IN IsBinary(c) =>
              /\ \A v \in Range(doms[c.var1].values) :
                    \E w \in Range(doms[c.var2].values) : Predicate(c, v, w)
              /\ \A w \in Range(doms[c.var2].values) :
                    \E v \in Range(doms[c.var1].values) : Predicate(c, v, w)

\* ac3Inference is about to revise an arc (Xi, Xj) in which no value of Xi
\* has a support: revising it empties Xi's domain
RevisionEmpties ==
    IF pc = "ac3" /\ queue # <<>>
    THEN LET arc == Head(queue)
         IN IF arc.xi \in DOMAIN domains /\ arc.xj \in DOMAIN domains
            THEN ToRemove(domains[arc.xi], domains[arc.xj], arc.xi,
                          arc.constraint) = Range(domains[arc.xi].values)
            ELSE FALSE
    ELSE FALSE

----------------------------------------------------------------------------
(* Properties of solveCSP *)

\* C1: when no assignment of domain values satisfies all constraints,
\* solveCSP returns the failure result, never success.
C1_UnsatisfiableFails ==
    (pc = "done" /\ ~Satisfiable(csp)) => result.success = FALSE

\* an unsatisfiable two-variable CSP is reported solved, one variable being
\* bound to the marker of an emptied domain
C1_MarkerSolution ==
    /\ pc = "done"
    /\ Len(csp.variables) = 2
    /\ ~Satisfiable(csp)
    /\ result.success
    /\ \E v \in DOMAIN result.assignment : result.assignment[v] = EmptyMarker

\* C2: when solveCSP returns success, the returned assignment binds every
\* variable of the CSP and csp.isConsistent holds of it, a CSP without
\* variables included.
C2_SuccessIsSolution ==
    (pc = "done" /\ result.success) =>
        /\ \A i \in 1..Len(csp.variables) :
              csp.variables[i] \in DOMAIN result.assignment
        /\ IsConsistent(csp, result.assignment)

\* a CSP without variables is reported solved by an assignment that
\* violates one of its constraints
C2_EmptyProblemSolved ==
    /\ pc = "done"
    /\ csp.variables = <<>>
    /\ result.success
    /\ ~IsConsistent(csp, result.assignment)

\* C3: when the variables are distinct and some assignment of domain values
\* satisfies all constraints, solveCSP returns success.
C3_SatisfiableSucceeds ==
    (pc = "done" /\ DistinctVariables(csp) /\ Satisfiable(csp)) =>
        result.success

\* the satisfiable one-variable CSP whose variable is named "" is reported
\* to have no solution
C3_EmptyNameFails ==
    /\ pc = "done"
    /\ csp = EmptyNameCSP
    /\ Satisfiable(csp)
    /\ result.success = FALSE

\* C4: solveCSP terminates: on every CSP it eventually returns a result.
C4_Terminates == <>(pc = "done")

\* on the complete graph of four regions with one colour, AC-3 revises an
\* arc between two domains that both hold the marker of an emptied domain
C4_MarkerAgainstMarker ==
    /\ csp = HardMapProblem(1)
    /\ RevisionEmpties
    /\ EmptyMarker \in Range(domains[Head(queue).xi].values)
    /\ EmptyMarker \in Range(domains[Head(queue).xj].values)

\* C5: when revising an arc (Xi, Xj) leaves Xi without a supported value,
\* ac3Inference returns null at once and search goes on with the next value
\* of its loop.
C5_WipeoutFailsAtOnce ==
    [][RevisionEmpties =>
          (pc' = "loop" /\ stack' = NextValue /\ last' = "wipeout")]_vars

\* a revision emptied a domain and propagation went on with the marker
C5_MarkerStored == pc = "ac3" /\ last = "marked"

\* C6: whenever ac3Inference returns a state, every binary constraint of the
\* CSP is arc consistent in both directions in the returned domains.
C6_ArcConsistentAfterAc3 ==
    last = "recurse" => ArcConsistent(csp, cur.domains)

\* ac3Inference returned domains, none of them marked, in which a value has
\* no support
C6_UnsupportedValueLeft ==
    /\ last = "recurse"
    /\ \A v \in DOMAIN cur.domains :
          EmptyMarker \notin Range(cur.domains[v].values)
    /\ ~ArcConsistent(csp, cur.domains)

\* C7: every state passed to a recursive search call has an assignment for
\* which csp.isConsistent is true.
C7_RecursedStatesConsistent ==
    (pc = "search" /\ stack # <<>>) => IsConsistent(csp, cur.assignment)

\* a recursive call is entered after an earlier value of the same loop was
\* discarded, on a CSP with constraints over bound variables
C7_RecursedAfterDiscard ==
    /\ pc = "search"
    /\ Len(stack) >= 2
    /\ Top.i >= 2
    /\ \E i \in 1..Len(csp.constraints) :
          /\ Len(GetScope(csp.constraints[i])) >= 2
          /\ \A k \in 1..Len(GetScope(csp.constraints[i])) :
                GetScope(csp.constraints[i])[k] \in DOMAIN cur.assignment

\* C8: each active search call holds an assignment with exactly one more
\* bound variable than its caller's, the variable it chose being unassigned,
\* and the recursion depth never exceeds the number of variables.
C8_AssignmentGrowsByOne ==
    /\ Len(stack) <= Len(csp.variables)
    /\ \A k \in 1..Len(stack) :
          /\ Cardinality(DOMAIN stack[k].state.assignment) = k - 1
          /\ stack[k].variable \notin DOMAIN stack[k].state.assignment
    /\ pc = "search" => Cardinality(DOMAIN cur.assignment) = Len(stack)

\* the recursion is as deep as the CSP has variables, three of them
C8_DeepestCall ==
    /\ pc = "search"
    /\ Len(csp.variables) = 3
    /\ Len(stack) = 3
    /\ Cardinality(DOMAIN cur.assignment) = 3

----------------------------------------------------------------------------
(* Properties of Domain *)

\* C9: after any sequence of filter and remove the result is a Domain of
\* size at least 1 or null, no Domain of size 0 exists, and constructing a
\* Domain from an empty collection throws.
C9_DomainNeverEmpty ==
    /\ IsDomain(dom) => Size(dom) >= 1
    /\ IsDomain(orig) => Size(orig) >= 1
    /\ op.name = "new" => (IF op.values = <<>> THEN dom = Throws
                           ELSE IsDomain(dom))
    /\ op.name \in {"filter", "remove"} => (dom = Null \/ IsDomain(dom))

\* a third operation in a row emptied a Domain of one value
C9_EmptiedAfterThree ==
    /\ op.n = 3
    /\ op.name = "filter"
    /\ Size(orig) = 1
    /\ dom = Null

\* C10: d.remove of the empty set equals d, and d.remove(S) holds exactly
\* the values of d that are not in S (null when there is none), d itself
\* being unchanged.
C10_RemoveExact ==
    op.name = "remove" =>
        /\ op.set = {} => (IsDomain(dom) /\ Equals(dom, orig)
                              /\ Equals(orig, dom))
        /\ IF IsDomain(dom)
           THEN \A v \in ValueUniverse :
                   Contains(dom, v) <=> (Contains(orig, v) /\ v \notin op.set)
           ELSE /\ dom = Null
                /\ \A v \in ValueUniverse :
                      Contains(orig, v) => v \in op.set

\* a remove of a set that holds a value of d and a value foreign to d
\* left a smaller Domain
C10_RemovedSome ==
    /\ op.name = "remove"
    /\ IsDomain(dom)
    /\ Size(dom) < Size(orig)
    /\ \E v \in op.set : ~Contains(orig, v)

----------------------------------------------------------------------------
(* Properties of SolverState *)

----------------------------------------------------------------------------
(* The documented example problems *)

\* C12: for A, B, C with domain {"1","2","3"}, all-different over the three
\* and equalTo(A, "1"), solveCSP returns success with A = "1" and B, C
\* bound to "2" and "3" in some order.
C12_Example1Solved ==
    (pc = "done" /\ csp = Example1CSP) =>
        /\ result.success
        /\ result.assignment["A"] = "1"
        /\ {result.assignment["B"], result.assignment["C"]} = {"2", "3"}

\* solveCSP returned on example1
C12_Example1Returned ==
    /\ pc = "done"
    /\ csp = Example1CSP
    /\ result.success
    /\ assigns >= 3

\* C13: for createHardMapProblem (four variables, two colours, pairwise
\* differentValues) solveCSP returns success: false.
C13_HardMapFails ==
    (pc = "done" /\ csp = HardMapProblem(2)) => result.success = FALSE

\* solveCSP returned on createHardMapProblem after exhausting both colours of
\* the first variable
C13_HardMapReturned ==
    /\ pc = "done"
    /\ csp = HardMapProblem(2)
    /\ Len(csp.constraints) = 6
    /\ assigns >= 2

\* C14: for N in {1, 2, 3}, solveCSP(createNQueensProblem(N)) returns
\* success exactly when N = 1, then with the single binding row0 = col0.
C14_SmallBoards ==
    pc = "done" =>
        \A n \in {1, 2, 3} :
            csp = NQueensProblem(n) =>
                /\ result.success <=> n = 1
                /\ n = 1 => /\ DOMAIN result.assignment = {"row0"}
                            /\ result.assignment["row0"] = "col0"

\* solveCSP returned on the board of three rows after trying every column
\* of the first row
C14_ThreeRowsReturned ==
    /\ pc = "done"
    /\ csp = NQueensProblem(3)
    /\ assigns >= 3

\* C15: solveCSP(createAustraliaMapProblem()) returns success with each of
\* the 7 regions bound to red, green or blue and the two regions of every
\* differentValues constraint bound to different colours.
C15_AustraliaColoured ==
    (pc = "done" /\ csp = AustraliaMapProblem) =>
        /\ result.success
        /\ DOMAIN result.assignment = Range(csp.variables)
        /\ \A v \in Range(csp.variables) :
              result.assignment[v] \in {"red", "green", "blue"}
        /\ \A i \in 1..Len(csp.constraints) :
              result.assignment[csp.constraints[i].var1]
                  # result.assignment[csp.constraints[i].var2]

\* solveCSP returned on the map of Australia, seven regions being bound
C15_AustraliaReturned ==
    /\ pc = "done"
    /\ csp = AustraliaMapProblem
    /\ Len(csp.variables) = 7
    /\ assigns >= 7

----------------------------------------------------------------------------
(* Properties of the result *)

\* C16: in every SolverResult, success or failure, stats.nodesExplored is
\* the total number of state.assign calls made over all branches of the
\* search, abandoned ones included.
C16_StatsCountAllNodes ==
    pc = "done" => result.stats.nodesExplored = assigns

\* the failure result of createHardMapProblem reports no explored node
\* although values were assigned
C16_FailureReportsZero ==
    /\ pc = "done"
    /\ csp = HardMapProblem(2)
    /\ result.success = FALSE
    /\ assigns > 0
    /\ result.stats.nodesExplored = 0

\* every entry of a domains map is a Domain object: no constructor threw
AllDomains(map) == \A v \in DOMAIN map : IsDomain(map[v])

\* C17: solveCSP never throws: no Domain constructor and no getDomain call
\* made on its behalf throws, wipeout and exhaustion stay inside search, and
\* what it returns is the success or the failure result.
C17_NeverThrows ==
    /\ result # Throws
    /\ pc = "done" => result.success \in BOOLEAN
    /\ cur # Null => AllDomains(cur.domains)
    /\ newState # Null => AllDomains(newState.domains)
    /\ domains # Null => AllDomains(domains)
    /\ \A k \in 1..Len(stack) : AllDomains(stack[k].state.domains)

\* the failure result was returned after a revision had emptied a domain
C17_FailureAfterWipeout ==
    /\ pc = "done"
    /\ result.success = FALSE
    /\ domains # Null
    /\ \E v \in DOMAIN domains : EmptyMarker \in Range(domains[v].values)

----------------------------------------------------------------------------
(* Properties of the CSP constructor and of the constraints *)

\* C18: constructing a CSP throws when a listed variable has no entry in
\* the domain map and when a constraint's scope holds a variable that is
\* not listed; otherwise the CSP has a domain for each variable and every
\* constraint scope lies within its variables.
C18_ConstructorValidates ==
    call.name = "CSP" =>
        LET missingDomain ==
                \E v \in Range(call.variables) : v \notin DOMAIN call.domains
            unknownVariable ==
                \E i \in 1..Len(call.constraints) :
                    \E v \in Range(GetScope(call.constraints[i])) :
                        v \notin Range(call.variables)
        IN IF missingDomain \/ unknownVariable
           THEN call.result = Throws
           ELSE /\ call.result # Throws
                /\ call.result.variables = call.variables
                /\ \A v \in Range(call.result.variables) :
                      IsDomain(GetDomain(call.result, v))
                /\ \A i \in 1..Len(call.result.constraints) :
                      Range(GetScope(call.result.constraints[i]))
                          \subseteq Range(call.result.variables)

\* the constructor threw for a constraint on an unlisted variable, every
\* listed variable having a domain
C18_UnknownVariableThrown ==
    /\ call.name = "CSP"
    /\ call.variables = <<"A">>
    /\ "A" \in DOMAIN call.domains
    /\ call.constraints = <<differentValues("A", "B")>>
    /\ call.result = Throws

\* C19: for every assignment over strings, the empty string included,
\* AllDifferentConstraint.isSatisfied returns true exactly when no two
\* variables of its scope that the assignment binds are bound to the same
\* value; variables the assignment leaves out never count.
C19_AllDifferentExact ==
    call.name = "AllDifferent" =>
        LET scope == GetScope(call.constraint)
            shared == \E i, j \in 1..Len(scope) :
                         /\ i < j
                         /\ scope[i] \in DOMAIN call.assignment
                         /\ scope[j] \in DOMAIN call.assignment
                         /\ call.assignment[scope[i]]
                                = call.assignment[scope[j]]
        IN call.result = ~shared

\* isSatisfied answered true for two variables both bound to the empty string
C19_EmptyStringsAccepted ==
    /\ call.name = "AllDifferent"
    /\ GetScope(call.constraint) = <<"A", "B">>
    /\ DOMAIN call.assignment = {"A", "B"}
    /\ call.assignment["A"] = ""
    /\ call.assignment["B"] = ""
    /\ call.result = TRUE

\* C20: for every assignment over strings, the empty string included,
\* BinaryConstraint.isSatisfied returns true when the assignment leaves out
\* one of its two variables, and otherwise returns the stored predicate
\* applied to the value of var1 and the value of var2.
C20_BinaryExact ==
    call.name = "Binary" =>
        LET c == call.constraint
        IN IF c.var1 \notin DOMAIN call.assignment
              \/ c.var2 \notin DOMAIN call.assignment
           THEN call.result = TRUE
           ELSE call.result = Predicate(c, call.assignment[c.var1],
                                        call.assignment[c.var2])

\* isSatisfied answered true although both variables are bound, to the empty
\* string, and the predicate v1 !== v2 is false of their values
C20_EmptyStringsSkipPredicate ==
    /\ call.name = "Binary"
    /\ call.constraint = differentValues("A", "B")
    /\ DOMAIN call.assignment = {"A", "B"}
    /\ call.assignment["A"] = ""
    /\ call.assignment["B"] = ""
    /\ call.result = TRUE

----------------------------------------------------------------------------
(* Properties of support sets and of variable selection *)

\* C21: for a binary constraint with predicate P and domains D1, D2,
\* getSupportedValues returns as var1Supported the values v1 of D1 for which
\* some v2 of D2 has P(v1, v2), and as var2Supported the values v2 of D2 for
\* which some v1 of D1 has P(v1, v2); P is always given the var1 value first.
C21_SupportSetsExact ==
    call.name = "getSupportedValues" =>
        LET c == call.constraint
            D1 == Range(call.var1Values.values)
            D2 == Range(call.var2Values.values)
        IN /\ call.result.var1Supported
                 = {v1 \in D1 : \E v2 \in D2 : Predicate(c, v1, v2)}
           /\ call.result.var2Supported
                 = {v2 \in D2 : \E v1 \in D1 : Predicate(c, v1, v2)}

\* for v1 < v2 with D1 = {"a", "b"} and D2 = {"", "a"} no pair satisfies the
\* predicate in this order (every pair does in the other) and both sets
\* came back empty
C21_OrderedPredicateNoSupport ==
    /\ call.name = "getSupportedValues"
    /\ call.constraint = lessThan("A", "B")
    /\ Range(call.var1Values.values) = {"a", "b"}
    /\ Range(call.var2Values.values) = {"", "a"}
    /\ call.result.var1Supported = {}
    /\ call.result.var2Supported = {}

\* the variables of the CSP that the state's assignment does not bind
Unassigned(p, state) ==
    {v \in Range(p.variables) : v \notin DOMAIN state.assignment}

\* variable is unassigned in state and no unassigned variable has a smaller
\* current domain
MinimumRemaining(p, state, variable) ==
    /\ variable \in Unassigned(p, state)
    /\ \A u \in Unassigned(p, state) :
          Size(state.domains[variable]) <= Size(state.domains[u])

\* C22: selectUnassignedVariable returns a variable that the state's
\* assignment does not bind and whose current domain is no larger than that
\* of any other unassigned variable; it returns null exactly when every
\* variable of the CSP is assigned.  Stated of the call search is about to
\* make and of the variable each active search call selected.
C22_MinimumRemainingValues ==
    /\ pc = "search" =>
          LET variable == SelectUnassignedVariable(csp, cur)
          IN IF variable = NoVariable
             THEN Unassigned(csp, cur) = {}
             ELSE MinimumRemaining(csp, cur, variable)
    /\ \A k \in 1..Len(stack) :
          MinimumRemaining(csp, stack[k].state, stack[k].variable)

\* a search call selected a variable with a smaller domain than an
\* unassigned variable listed before it
C22_SmallerDomainPreferred ==
    /\ pc = "loop"
    /\ Len(stack) > 0
    /\ \E i, j \in 1..Len(csp.variables) :
          /\ i < j
          /\ csp.variables[j] = Top.variable
          /\ csp.variables[i] \in Unassigned(csp, Top.state)
          /\ Size(Top.state.domains[Top.variable])
                < Size(Top.state.domains[csp.variables[i]])

\* the number of constraints of the CSP that involve variable and whose
\* scope holds at least one other variable that is still unassigned
ActiveDegree(p, state, variable) ==
    Cardinality({i \in 1..Len(p.constraints) :
        /\ variable \in Range(GetScope(p.constraints[i]))
        /\ \E w \in Range(GetScope(p.constraints[i])) :
              w # variable /\ w \in Unassigned(p, state)})

\* variable has the highest active degree among the unassigned variables
\* whose current domain is as small as the smallest
DegreeTieBreak(p, state, variable) ==
    \A u \in Unassigned(p, state) :
        MinimumRemaining(p, state, u) =>
            ActiveDegree(p, state, u) <= ActiveDegree(p, state, variable)

\* C23: among the unassigned variables tied on the smallest current domain
\* size, selectUnassignedVariable returns one involved in the most
\* constraints whose scope contains at least one other unassigned variable.
C23_DegreeTieBreak ==
    /\ pc = "search" =>
          LET variable == SelectUnassignedVariable(csp, cur)
          IN IF variable = NoVariable THEN TRUE
             ELSE DegreeTieBreak(csp, cur, variable)
    /\ \A k \in 1..Len(stack) :
          DegreeTieBreak(csp, stack[k].state, stack[k].variable)

\* the first search call of a CSP over A, B, C selected A, whose only
\* constraint is equalTo on A alone, although B is tied on domain size and
\* has a constraint with the unassigned C
C23_UnaryConstraintCounted ==
    /\ pc = "loop"
    /\ Len(stack) = 1
    /\ csp.variables = <<"A", "B", "C">>
    /\ csp.constraints = <<differentValues("B", "C"), equalTo("A", "a")>>
    /\ Top.variable = "A"
    /\ ActiveDegree(csp, Top.state, "A") = 0
    /\ ActiveDegree(csp, Top.state, "B") = 1
    /\ Size(Top.state.domains["A"]) = Size(Top.state.domains["B"])

----------------------------------------------------------------------------
(* Properties of construction: all-different constraints and the builder *)

\* C24: constructing an all-different constraint with fewer than 2 variables
\* throws, through the AllDifferentConstraint constructor and through the
\* allDifferent factory alike; with 2 or more variables construction
\* succeeds and getScope returns exactly those variables.
C24_AllDifferentNeedsTwo ==
    call.name = "allDifferent" =>
        IF Len(call.variables) < 2
        THEN call.result = Throws
        ELSE /\ call.result # Throws
             /\ call.result.scope = call.variables

\* the factory threw for a single variable
C24_SingleVariableThrown ==
    /\ call.name = "allDifferent"
    /\ call.via = "factory"
    /\ call.variables = <<"A">>
    /\ call.result = Throws

\* C25: after any sequence of CSPBuilder calls no variable is registered
\* twice; addVariable and addVariables throw when given a variable the
\* builder already holds, and every variable that had a domain before a
\* call has the same domain after it.
C25_NoVariableTwice ==
    /\ \A i, j \in 1..Len(builder.obj.variables) :
          i # j => builder.obj.variables[i] # builder.obj.variables[j]
    /\ \A v \in DOMAIN builder.before.domains :
          /\ v \in DOMAIN builder.obj.domains
          /\ builder.obj.domains[v] = builder.before.domains[v]
    /\ builder.name \in {"addVariable", "addVariables"} =>
          ((\E v \in Range(builder.variables) :
               v \in Range(builder.before.variables)) => builder.threw)

\* addVariable("A", ["a", "b"]) threw on a builder where A had the domain
\* {"a"}, and A still has it
C25_SecondDomainRefused ==
    /\ builder.name = "addVariable"
    /\ builder.variables = <<"A">>
    /\ builder.values = <<"a", "b">>
    /\ builder.threw
    /\ "A" \in DOMAIN builder.before.domains
    /\ builder.obj.domains["A"] = DomainNew(<<"a">>)

\* C26: addConstraint throws when the constraint's scope holds a variable
\* not yet added to the builder, and then leaves the constraint list as it
\* was; every CSP that build returns has all its constraint scopes within
\* its variables, and build throws if no variable was added.
C26_BuilderValidatesScopes ==
    /\ builder.name = "addConstraint" =>
          ((\E v \in Range(GetScope(builder.constraint)) :
               v \notin Range(builder.before.variables))
           => /\ builder.threw
              /\ builder.obj.constraints = builder.before.constraints)
    /\ builder.name = "build" =>
          IF Len(builder.before.variables) = 0
          THEN builder.built = Throws
          ELSE builder.built # Throws =>
                  \A i \in 1..Len(builder.built.constraints) :
                      Range(GetScope(builder.built.constraints[i]))
                          \subseteq Range(builder.built.variables)
    /\ \A i \in 1..Len(builder.obj.constraints) :
          Range(GetScope(builder.obj.constraints[i]))
              \subseteq Range(builder.obj.variables)

\* addConstraint(differentValues("A", "B")) threw on a builder that holds
\* A only and already has a constraint, which is still its only one
C26_UnknownScopeRefused ==
    /\ builder.name = "addConstraint"
    /\ builder.constraint = differentValues("A", "B")
    /\ builder.before.variables = <<"A">>
    /\ builder.threw
    /\ builder.obj.constraints = <<equalTo("A", "a")>>

----------------------------------------------------------------------------
(* Properties of the values bound and of the AC-3 work queue *)

\* C27: whenever solveCSP returns success: true, the value assigned to each
\* variable is a member of that variable's original domain in the CSP.
C27_AssignedFromDomain ==
    (pc = "done" /\ result # Throws) =>
        (result.success =>
            \A v \in DOMAIN result.assignment :
                Contains(GetDomain(csp, v), result.assignment[v]))

\* solveCSP returned success for two variables over the single value "a"
\* that must differ, with the second bound to a value outside its domain
C27_ForeignValueReturned ==
    /\ pc = "done"
    /\ result # Throws
    /\ result.success
    /\ csp.variables = <<"A", "B">>
    /\ csp.constraints = <<differentValues("A", "B")>>
    /\ ToArray(GetDomain(csp, "B")) = <<"a">>
    /\ result.assignment["A"] = "a"
    /\ result.assignment["B"] = EmptyMarker

\* the binary constraints of the CSP that involve variable, in CSP order
BinaryInvolving(p, variable) ==
    SelectSeq(p.constraints, LAMBDA c : IsBinary(c) /\ Involves(c, variable))

\* one arc (other, variable, c) for each binary constraint c that involves
\* variable
ArcsToward(p, variable) ==
    [k \in 1..Len(BinaryInvolving(p, variable)) |->
        Arc(GetOther(BinaryInvolving(p, variable)[k], variable), variable,
            BinaryInvolving(p, variable)[k])]

\* C28: ac3Inference starts with a queue that holds exactly one arc
\* (other, justAssigned) for each BinaryConstraint of the CSP that involves
\* the variable just assigned, and no other arc.
C28_SeedArcs ==
    (pc = "ac3" /\ last = "assign") => queue = ArcsToward(csp, Top.variable)

\* B was assigned under differentValues("", "B") and ac3Inference started
\* with an empty queue
C28_EmptyNameNotSeeded ==
    /\ pc = "ac3"
    /\ last = "assign"
    /\ csp = EmptyNameArcCSP
    /\ Top.variable = "B"
    /\ Len(BinaryInvolving(csp, "B")) = 1
    /\ queue = <<>>

\* the arcs (Xk, Xi, c) of the binary constraints touching xi, leaving out
\* only the arc of the constraint just processed that points back to xj
ArcsExceptProcessed(p, xi, xj, processed) ==
    SelectSeq(ArcsToward(p, xi),
        LAMBDA a : ~(a.constraint = processed /\ a.xi = xj))

\* C29: when revising the arc (Xi, Xj) removes a value from Xi's domain,
\* ac3Inference appends to the queue an arc (Xk, Xi, c) for every binary
\* constraint c touching Xi, except only the arc of the constraint just
\* processed that points back to Xj; a second binary constraint between Xi
\* and Xj gets its arc (Xj, Xi) appended.
C29_RequeueAllButProcessed ==
    [][(pc = "ac3" /\ pc' = "ac3" /\ last' \in {"revised", "marked"}) =>
          queue' = Tail(queue)
                       \o ArcsExceptProcessed(csp, Head(queue).xi,
                              Head(queue).xj, Head(queue).constraint)]_vars

\* under differentValues(A, B) and differentValues(B, A), the revision of
\* (B, A) by the first constraint removed a value from B and left in the
\* queue only the seeded arc of the second: the arc (A, B) of the second
\* constraint was not appended
C29_SecondConstraintNotRequeued ==
    /\ pc = "ac3"
    /\ last = "revised"
    /\ csp = TwoConstraintCSP
    /\ Top.variable = "A"
    /\ Size(domains["B"]) = 1
    /\ queue = <<Arc("B", "A", differentValues("B", "A"))>>

\* C30: every call of ac3Inference terminates: the queue empties or wipeout
\* is reported, each revision that reports a change having made Xi's
\* working domain strictly smaller.
C30_Ac3Terminates == (pc = "ac3") ~> (pc # "ac3")

\* a revision reported a change and the revised domain, which had one
\* value when ac3Inference was entered, still has one: the marker
C30_SizeKeptByMarker ==
    /\ pc = "ac3"
    /\ last = "marked"
    /\ \E v \in DOMAIN domains :
          /\ EmptyMarker \in Range(domains[v].values)
          /\ Size(newState.domains[v]) = 1
          /\ Size(domains[v]) = 1

----------------------------------------------------------------------------
(* Properties of propagation and of the search states *)

\* every domain of doms holds only values of the same variable's domain in
\* input
DomainsWithin(doms, input) ==
    \A v \in DOMAIN doms :
        Range(doms[v].values) \subseteq Range(input[v].values)

\* C31: AC-3 only shrinks domains: in every state ac3Inference returns, the
\* domain of each variable is a subset of that variable's domain in the
\* state it was given.
C31_Ac3OnlyShrinks ==
    (pc = "search" /\ last = "recurse") =>
        DomainsWithin(cur.domains, newState.domains)

\* ac3Inference returned a state in which a domain holds the marker value,
\* which the domain it was given did not hold
C31_MarkerAdded ==
    /\ pc = "search"
    /\ last = "recurse"
    /\ \E v \in DOMAIN cur.domains :
          /\ Contains(cur.domains[v], EmptyMarker)
          /\ ~Contains(newState.domains[v], EmptyMarker)

\* the complete assignments that lie within doms and satisfy the predicate
\* of every binary constraint of p
BinarySolutions(p, doms) ==
    {a \in [DOMAIN doms ->
               UNION {Range(doms[v].values) : v \in DOMAIN doms}] :
        /\ \A v \in DOMAIN doms : Contains(doms[v], a[v])
        /\ \A i \in 1..Len(p.constraints) :
              IF IsBinary(p.constraints[i])
              THEN Predicate(p.constraints[i], a[p.constraints[i].var1],
                             a[p.constraints[i].var2])
              ELSE TRUE}

\* C32: AC-3 pruning preserves solutions: at no point of ac3Inference has a
\* value been removed that occurs in a complete assignment lying within the
\* domains of the input state and satisfying every binary constraint, and
\* failure is never reported when such an assignment exists.
C32_PruningPreservesSolutions ==
    /\ pc = "ac3" =>
          \A a \in BinarySolutions(csp, newState.domains) :
              \A v \in DOMAIN domains : Contains(domains[v], a[v])
    /\ (pc = "search" /\ last = "recurse") =>
          \A a \in BinarySolutions(csp, newState.domains) :
              \A v \in DOMAIN cur.domains : Contains(cur.domains[v], a[v])
    /\ last = "wipeout" => BinarySolutions(csp, newState.domains) = {}

\* ac3Inference returned a state with a domain smaller than it was given,
\* the input domains holding an assignment that satisfies every binary
\* constraint
C32_PrunedWithSolution ==
    /\ pc = "search"
    /\ last = "recurse"
    /\ BinarySolutions(csp, newState.domains) # {}
    /\ \E v \in DOMAIN cur.domains :
          Size(cur.domains[v]) < Size(newState.domains[v])

\* no constraint of p is a BinaryConstraint
NoBinaryConstraint(p) ==
    \A i \in 1..Len(p.constraints) : p.constraints[i].kind # "binary"

\* C33: only BinaryConstraint instances are propagated: for a CSP whose
\* constraints are all FunctionConstraint or AllDifferentConstraint, function
\* constraints over two variables included, ac3Inference has nothing in its
\* queue, reports no wipeout and returns a state whose domains equal those
\* of the state it was given.
C33_OnlyBinaryPropagated ==
    NoBinaryConstraint(csp) =>
        /\ pc = "ac3" => (queue = <<>> /\ domains = newState.domains)
        /\ (pc = "search" /\ last = "recurse") =>
              cur.domains = newState.domains
        /\ last \notin {"wipeout", "revised", "marked", "unrevised"}

\* for a CSP whose constraints are function constraints over two variables,
\* ac3Inference returned the domains it was given and search recursed
C33_FunctionPairUntouched ==
    /\ NoBinaryConstraint(csp)
    /\ \E i \in 1..Len(csp.constraints) :
          /\ csp.constraints[i].kind = "function"
          /\ Len(GetScope(csp.constraints[i])) = 2
    /\ pc = "search"
    /\ last = "recurse"
    /\ cur.domains = newState.domains

\* the domain of each variable bound by assignment is the singleton of the
\* value it is bound to
AssignedSingletons(assignment, doms) ==
    \A v \in DOMAIN assignment : ToArray(doms[v]) = <<assignment[v]>>

\* C34: in every state reached during search, after assign and after any
\* number of AC-3 revisions, the domain of each assigned variable is exactly
\* the singleton containing its assigned value.
C34_AssignedDomainSingleton ==
    /\ cur # Null => AssignedSingletons(cur.assignment, cur.domains)
    /\ newState # Null =>
          AssignedSingletons(newState.assignment, newState.domains)
    /\ pc = "ac3" => AssignedSingletons(newState.assignment, domains)
    /\ \A k \in 1..Len(stack) :
          AssignedSingletons(stack[k].state.assignment, stack[k].state.domains)

\* with C equal to A and different from B over the single value "a",
\* search recursed after B = "a" on a state in which A, bound to "a", has
\* the marker as its domain
C34_AssignedDomainReplaced ==
    /\ pc = "search"
    /\ last = "recurse"
    /\ csp = SameAndDifferentCSP
    /\ DOMAIN cur.assignment = {"A", "B"}
    /\ cur.assignment["A"] = "a"
    /\ ToArray(cur.domains["A"]) = <<EmptyMarker>>

\* after is before with variable bound to value: the assignment has the one
\* binding more, the variable's domain is {value}, every other domain is as
\* before, nodesExplored is one more, inferencesApplied the same
AssignEffect(before, variable, value, after) ==
    /\ DOMAIN after.assignment = DOMAIN before.assignment \cup {variable}
    /\ after.assignment[variable] = value
    /\ \A v \in DOMAIN before.assignment :
          v # variable => after.assignment[v] = before.assignment[v]
    /\ DOMAIN after.domains = DOMAIN before.domains \cup {variable}
    /\ ToArray(after.domains[variable]) = <<value>>
    /\ \A v \in DOMAIN before.domains :
          v # variable => after.domains[v] = before.domains[v]
    /\ after.stats.nodesExplored = before.stats.nodesExplored + 1
    /\ after.stats.inferencesApplied = before.stats.inferencesApplied

\* C35: state.assign(variable, value) returns a state whose assignment is
\* the old one plus the binding, whose domain for the variable is {value},
\* whose other domains are unchanged, whose nodesExplored is one more and
\* whose inferencesApplied is unchanged; withInference keeps the assignment,
\* replaces the domains and adds one to inferencesApplied only.
C35_AssignAndWithInference ==
    /\ (pc = "ac3" /\ last = "assign") =>
          AssignEffect(Top.state, Top.variable, Top.values[Top.i], newState)
    /\ (pc = "loop" /\ last = "inconsistent") =>
          AssignEffect(Top.state, Top.variable, Top.values[Top.i - 1],
                       newState)
    /\ (pc = "search" /\ last = "recurse") =>
          /\ cur.assignment = newState.assignment
          /\ cur.domains = domains
          /\ cur.stats.nodesExplored = newState.stats.nodesExplored
          /\ cur.stats.inferencesApplied
                = newState.stats.inferencesApplied + 1

\* a second variable was assigned a value from a domain of two values, the
\* first keeping its binding and its domain, and withInference had been
\* applied once before
C35_SecondBinding ==
    /\ pc = "ac3"
    /\ last = "assign"
    /\ Cardinality(DOMAIN Top.state.assignment) = 1
    /\ Size(Top.state.domains[Top.variable]) = 2
    /\ Size(newState.domains[Top.variable]) = 1
    /\ newState.stats = [nodesExplored |-> 2, inferencesApplied |-> 1]

\* C36: first-found: once a search call has returned a solution, each
\* enclosing search call returns that same state, no further value of any
\* variable is assigned, and solveCSP reports that state's assignment.
C36_FirstFound ==
    [][(pc = "return" /\ ret # Null) =>
          /\ ret' = ret
          /\ assigns' = assigns
          /\ IF stack # <<>>
             THEN pc' = "return" /\ stack' = Pop
             ELSE /\ pc' = "done"
                  /\ result'.success
                  /\ result'.assignment = ret.assignment]_vars

\* an enclosing search call is about to return the solution of its
\* recursive call with a value of its variable still untried, a deeper
\* call having returned it already
C36_UntriedValueLeft ==
    /\ pc = "return"
    /\ ret # Null
    /\ last = "return-solution"
    /\ stack # <<>>
    /\ Top.i < Len(Top.values)

\* C37: backtracking isolation: a search call starts with the state it is
\* handed and, whatever assign, ac3Inference and deeper calls do, every
\* value of its variable is tried from that state, with the same candidate
\* values; the CSP is unchanged by the whole solve.
C37_BacktrackingIsolation ==
    [][/\ csp' = csp
       /\ \A k \in 1..Len(stack) :
             k <= Len(stack') =>
                /\ stack'[k].state = stack[k].state
                /\ stack'[k].variable = stack[k].variable
                /\ stack'[k].values = stack[k].values
       /\ Len(stack') > Len(stack) => stack'[Len(stack')].state = cur
       /\ (pc = "loop" /\ pc' = "ac3") =>
             newState' = Assign(Top.state, Top.variable, Top.values[Top.i])
      ]_vars

\* after the recursion under the first value failed, the second value is
\* about to be tried, the state of the failed branch having another
\* assignment and AC-3 having left other domains
C37_SecondValueAfterFailure ==
    /\ pc = "loop"
    /\ last = "backtrack"
    /\ Top.i = 2
    /\ Top.i <= Len(Top.values)
    /\ newState.assignment # Top.state.assignment
    /\ domains # Top.state.domains
    /\ cur.domains # Top.state.domains

----------------------------------------------------------------------------
(* Properties of failed builder calls and of determinism *)

\* C39: a CSPBuilder call that throws leaves the builder unchanged: when
\* addVariables throws for a variable that exists already or is repeated in
\* the list, none of the variables of the call has been added, and when
\* addPairwiseConstraints throws none of its constraints has been added.
C39_ThrowLeavesBuilder == builder.threw => builder.obj = builder.before

\* addPairwiseConstraints(["A", "B", "C"], differentValues) threw on a
\* builder that holds A and B only, and the constraint for the pair (A, B)
\* has been added
C39_PairwisePartlyAdded ==
    /\ builder.name = "addPairwiseConstraints"
    /\ builder.variables = <<"A", "B", "C">>
    /\ builder.threw
    /\ Range(builder.before.variables) = {"A", "B"}
    /\ builder.obj.constraints
          = Append(builder.before.constraints, differentValues("A", "B"))

====
